---- MODULE Spec2Model ----
(***************************************************************************)
(* Model of the CodeSymphony class (symphony.ts): the pipeline             *)
(*   eigenvalue -> frequency -> MIDI number -> note name,                  *)
(*   frequencies -> {quality, tension}, frequencies -> colour,             *)
(* and the two entry points codeToChord and compareHarmony.                *)
(*                                                                         *)
(* Numbers.  JavaScript doubles are modelled in fixed point:               *)
(*   - an eigenvalue is an integer number of hundredths (EigenScale),      *)
(*   - a frequency is an integer number of tenths of a hertz (FreqScale),  *)
(*   - a ratio of two frequencies is the exact pair <<numerator, denom>>,  *)
(*   - a tension is the exact fraction [num, den],                         *)
(*   - 2^(j/12) and base-2 logarithms carry four decimal digits (Fix).     *)
(* A frequency is therefore within 0.01% of the double, and a MIDI number  *)
(* or colour channel that the doubles put within 0.003 of a rounding       *)
(* boundary may differ by one from the double computation.  A tension is   *)
(* exact; 1 - score/total in doubles differs from it by at most one unit   *)
(* in the last place, which matters only for a tension of exactly 0.3 or   *)
(* 0.7 (ten pairs, five frequencies, beyond MaxFreqs and MaxSpectrum).     *)
(* Non-finite doubles (NaN, Infinity) are outside the model, except that   *)
(* the fraction 0/0 stands for NaN.                                        *)
(***************************************************************************)
EXTENDS Integers, Sequences, FiniteSets, TLC

\* ------------------------------------------------------------------------
\* Bounds of the model
\* ------------------------------------------------------------------------
\* largest eigenvalue handed to eigenToFrequency, in tenths (81.0)
MaxEigenTenths == 810
\* how far below zero the eigenvalues handed to eigenToFrequency go, in
\* hundredths (down to -2.00)
EigenBelowZero == 200
\* longest frequency list handed to analyzeQuality / freqToColor directly
MaxFreqs == 3
\* longest spectrum the extractor returns to codeToChord
MaxSpectrum == 3
\* longest spectrum the extractor returns to compareHarmony
MaxCompared == 2
\* range of frequencies handed to freqToMidi directly, in tenths of a hertz
MinFreq == 80
MaxFreq == 9000
\* range of MIDI numbers handed to midiToNote directly: -MidiBelowZero..MaxMidi
MaxMidi == 130
MidiBelowZero == 30
\* semitones below and above A4 whose frequencies are handed to freqToMidi
SemitonesDown == 69
SemitonesUp == 48
\* calls of codeToChord on one code whose results are kept for comparison
MaxLogged == 2

\* ------------------------------------------------------------------------
\* Fixed-point scales
\* ------------------------------------------------------------------------
EigenScale == 100
FreqScale == 10
Fix == 10000

\* ------------------------------------------------------------------------
\* Arithmetic helpers standing for the JavaScript Math functions
\* ------------------------------------------------------------------------
\* const name = value; body: the value is computed once and then named
Let(value, Body(_)) == CHOOSE result \in {Body(name) : name \in {value}} : TRUE

RECURSIVE Pow2(_)
\* Math.pow(2, n) for an integer n >= 0
Pow2(n) == IF n <= 0 THEN 1 ELSE 2 * Pow2(n - 1)

\* Math.abs
Abs(x) == IF x < 0 THEN -x ELSE x

\* Math.min
Min(a, b) == IF a < b THEN a ELSE b

\* Math.round(num / den), den > 0: the nearest integer, halves rounded up
JSRound(num, den) == (2 * num + den) \div (2 * den)

\* the remainder operator % of JavaScript: truncating, sign of the dividend
JSRem(a, b) == IF a >= 0 THEN a % b ELSE -((-a) % b)

RECURSIVE FloorLog2(_, _)
\* Math.floor(Math.log2(num / den)) for num >= den > 0
FloorLog2(num, den) == IF num < 2 * den THEN 0 ELSE 1 + FloorLog2(num, 2 * den)

\* ------------------------------------------------------------------------
\* Module constants of symphony.ts
\* ------------------------------------------------------------------------
BASE_FREQ == 432

NOTES == <<"C", "C#", "D", "D#", "E", "F", "F#", "G", "G#", "A", "A#", "B">>

\* 2^(j/12) for j = 0..11, scaled by Fix
TwelfthRoots ==
  <<10000, 10595, 11225, 11892, 12599, 13348, 14142, 14983, 15874, 16818, 17818, 18877>>

\* Math.pow(2, noteOffset / 12), scaled by Fix, for noteOffset >= 0
SemitoneRatio(noteOffset) ==
  TwelfthRoots[(noteOffset % 12) + 1] * Pow2(noteOffset \div 12)

\* ------------------------------------------------------------------------
\* eigenToFrequency
\* ------------------------------------------------------------------------
\* EigenOctave with the band tests written <= instead of <
\* EigenOctave with the lowest band six octaves down, octave = -6
EigenOctaveSixDown(lambda) ==
  IF lambda < EigenScale \div 10 THEN -6
  ELSE IF lambda < EigenScale THEN -1
  ELSE IF lambda < 10 * EigenScale THEN 0
  ELSE FloorLog2(lambda, 10 * EigenScale) + 1

EigenOctaveClosedBands(lambda) ==
  IF lambda <= EigenScale \div 10 THEN -2
  ELSE IF lambda <= EigenScale THEN -1
  ELSE IF lambda <= 10 * EigenScale THEN 0
  ELSE FloorLog2(lambda, 10 * EigenScale) + 1

\* the local variable octave of eigenToFrequency
EigenOctave(lambda) ==
  IF lambda < EigenScale \div 10 THEN -2
  ELSE IF lambda < EigenScale THEN -1
  ELSE IF lambda < 10 * EigenScale THEN 0
  ELSE FloorLog2(lambda, 10 * EigenScale) + 1

\* EigenNoteOffset with the three lower bands on the root, noteOffset = 0
EigenNoteOffsetRoot(lambda) ==
  IF lambda < 10 * EigenScale THEN 0
  ELSE JSRound((lambda % (10 * EigenScale)) * 12, 10 * EigenScale)

\* EigenNoteOffset with the chromatic step taken from the fractional part,
\* Math.round((lambda % 1) * 12)
EigenNoteOffsetFraction(lambda) ==
  IF lambda < EigenScale \div 10 THEN 0
  ELSE IF lambda < EigenScale THEN 4
  ELSE IF lambda < 10 * EigenScale THEN 7
  ELSE JSRound((lambda % EigenScale) * 12, EigenScale)

\* the local variable noteOffset of eigenToFrequency
EigenNoteOffset(lambda) ==
  IF lambda < EigenScale \div 10 THEN 0
  ELSE IF lambda < EigenScale THEN 4
  ELSE IF lambda < 10 * EigenScale THEN 7
  ELSE JSRound((lambda % (10 * EigenScale)) * 12, 10 * EigenScale)

\* BASE_FREQ * octaveMultiplier * semitoneRatio, in tenths of a hertz
FreqOf(octave, noteOffset) ==
  IF octave >= 0
    THEN JSRound(BASE_FREQ * FreqScale * SemitoneRatio(noteOffset) * Pow2(octave), Fix)
    ELSE JSRound(BASE_FREQ * FreqScale * SemitoneRatio(noteOffset), Fix * Pow2(-octave))

eigenToFrequency(lambda) == FreqOf(EigenOctave(lambda), EigenNoteOffset(lambda))

\* ------------------------------------------------------------------------
\* Math.log2 in fixed point
\* ------------------------------------------------------------------------
RECURSIVE CeilLog2(_, _)
\* the least k >= 0 with num * 2^k >= den, for den > 0, num > 0
CeilLog2(num, den) == IF num >= den THEN 0 ELSE 1 + CeilLog2(2 * num, den)

\* Math.floor(Math.log2(num / den)) for num > 0, den > 0
Exponent(num, den) ==
  IF num >= den THEN FloorLog2(num, den) ELSE -CeilLog2(num, den)

\* (num / den) / 2^e, in [1, 2) for e = Exponent(num, den), scaled by Fix
Mantissa(num, den, e) ==
  IF e >= 0 THEN JSRound(num * Fix, den * Pow2(e))
            ELSE JSRound(num * Pow2(-e) * Fix, den)

\* the largest j in 0..11 with 2^(j/12) <= m / Fix, for m >= Fix
SemitoneBelow(m) ==
  CHOOSE j \in 0..11 :
    /\ TwelfthRoots[j + 1] <= m
    /\ \A i \in 0..11 : TwelfthRoots[i + 1] <= m => i <= j

\* 1 / ln 2, scaled by Fix
InvLn2 == 14427

\* ln(1 + d / Fix) scaled by Fix, for 0 <= d < 0.06 * Fix (three series terms)
LnSmall(d) == d - JSRound(d * d, 2 * Fix) + JSRound(d * d * d, 3 * Fix * Fix)

\* Math.log2(num / den), scaled by Fix
Log2Fix(num, den) ==
  Let(Exponent(num, den), LAMBDA e :
  Let(Mantissa(num, den, e), LAMBDA m :
  Let(SemitoneBelow(m), LAMBDA j :
  Let(JSRound(m * Fix, TwelfthRoots[j + 1]) - Fix, LAMBDA d :
    e * Fix + JSRound(j * Fix, 12) + JSRound(LnSmall(d) * InvLn2, Fix)))))

\* ------------------------------------------------------------------------
\* freqToMidi, midiToNote
\* ------------------------------------------------------------------------
\* freqToMidi with Math.floor in place of Math.round
freqToMidiFloor(freq) ==
  LET a4Freq == 432
      a4Midi == 69
      semitones == 12 * Log2Fix(freq, a4Freq * FreqScale)
  IN  (a4Midi * Fix + semitones) \div Fix

\* freq in tenths of a hertz
freqToMidi(freq) ==
  LET a4Freq == 432
      a4Midi == 69
      semitones == 12 * Log2Fix(freq, a4Freq * FreqScale)
  IN  JSRound(a4Midi * Fix + semitones, Fix)

\* NOTES[noteIndex] inside a template literal: an index outside the array
\* reads undefined, which the template prints as "undefined"
NoteName(noteIndex) ==
  IF noteIndex \in 0..(Len(NOTES) - 1) THEN NOTES[noteIndex + 1] ELSE "undefined"

midiToNote(midi) ==
  LET octave == (midi \div 12) - 1
      noteIndex == JSRem(midi, 12)
  IN  NoteName(noteIndex) \o ToString(octave)

\* ------------------------------------------------------------------------
\* analyzeQuality
\* ------------------------------------------------------------------------
\* the table consonantRatios, in thousandths
consonantRatios == <<1000, 2000, 1500, 1333, 1250, 1200, 1667, 1600>>

\* the scale of consonantRatios, and 1 / 0.05
RatioScale == 1000
InvTolerance == 20

RECURSIVE RatiosFrom(_, _, _)
\* the ratios pushed by the two nested loops from position (i, j) on;
\* a ratio frequencies[j] / frequencies[i] is kept as the exact fraction
RatiosFrom(frequencies, i, j) ==
  IF i > Len(frequencies) - 1 THEN <<>>
  ELSE IF j > Len(frequencies) THEN RatiosFrom(frequencies, i + 1, i + 2)
  ELSE <<[num |-> frequencies[j], den |-> frequencies[i]]>>
         \o RatiosFrom(frequencies, i, j + 1)

\* the local array ratios of analyzeQuality
Ratios(frequencies) == RatiosFrom(frequencies, 1, 2)

\* Math.abs(ratio - consonant) < 0.05
NearRatio(ratio, consonant) ==
  InvTolerance * Abs(RatioScale * ratio.num - consonant * ratio.den)
    < RatioScale * ratio.den

\* Math.abs(ratio - 1/consonant) < 0.05, that is
\*   20 * |consonant * num - 1000 * den| < consonant * den
NearInverse(ratio, consonant) ==
  Abs(consonant * ratio.num - RatioScale * ratio.den)
    < (consonant * ratio.den + InvTolerance - 1) \div InvTolerance

\* the condition of the if inside the inner loop
Matches(ratio, consonant) ==
  NearRatio(ratio, consonant) \/ NearInverse(ratio, consonant)

\* ScoreOf without the break: every matching table entry counts
ScoreOfNoBreak(ratio) ==
  Cardinality({k \in 1..Len(consonantRatios) : Matches(ratio, consonantRatios[k])})

\* what the inner loop adds to consonanceScore for one ratio: it breaks at
\* the first table entry that matches
ScoreOf(ratio) ==
  IF \E k \in 1..Len(consonantRatios) : Matches(ratio, consonantRatios[k])
    THEN 1 ELSE 0

RECURSIVE ScoreFrom(_, _)
\* consonanceScore accumulated by the outer loop from ratios[k] on
ScoreFrom(ratios, k) ==
  IF k > Len(ratios) THEN 0 ELSE ScoreOf(ratios[k]) + ScoreFrom(ratios, k + 1)

\* TensionBelowLow with the threshold 0.5
TensionBelowHalf(tension) == 10 * tension.num < 5 * tension.den

\* tension < 0.3 and tension > 0.7 for a tension num / den
TensionBelowLow(tension) == 10 * tension.num < 3 * tension.den
TensionAboveHigh(tension) == 10 * tension.num > 7 * tension.den

\* the classification at the end of analyzeQuality
QualityOf(tension) ==
  IF TensionBelowLow(tension) THEN "consonant"
  ELSE IF TensionAboveHigh(tension) THEN "dissonant"
  ELSE "neutral"

\* analyzeQuality with the short-circuit written for the empty list only; a
\* single frequency then divides 0 by 0
analyzeQualityEmptyOnly(frequencies) ==
  IF Len(frequencies) < 1
    THEN [quality |-> "neutral", tension |-> [num |-> 0, den |-> 1]]
    ELSE Let(Ratios(frequencies), LAMBDA ratios :
         Let(ScoreFrom(ratios, 1), LAMBDA consonanceScore :
         Let(Len(ratios), LAMBDA totalComparisons :
         Let([num |-> totalComparisons - consonanceScore,
              den |-> totalComparisons], LAMBDA tension :
           [quality |-> QualityOf(tension), tension |-> tension]))))

analyzeQuality(frequencies) ==
  IF Len(frequencies) < 2
    THEN [quality |-> "neutral", tension |-> [num |-> 0, den |-> 1]]
    ELSE Let(Ratios(frequencies), LAMBDA ratios :
         Let(ScoreFrom(ratios, 1), LAMBDA consonanceScore :
         Let(Len(ratios), LAMBDA totalComparisons :
         Let([num |-> totalComparisons - consonanceScore,
              den |-> totalComparisons], LAMBDA tension :
           [quality |-> QualityOf(tension), tension |-> tension]))))

\* ------------------------------------------------------------------------
\* freqToColor
\* ------------------------------------------------------------------------
HexDigits ==
  <<"0", "1", "2", "3", "4", "5", "6", "7", "8", "9", "a", "b", "c", "d", "e", "f">>

RECURSIVE HexOf(_)
\* the hexadecimal digits of n >= 0
HexOf(n) ==
  IF n < 16 THEN HexDigits[n + 1]
  ELSE HexOf(n \div 16) \o HexDigits[(n % 16) + 1]

\* n.toString(16): a negative number prints a minus sign and its magnitude
ToString16(n) == IF n < 0 THEN "-" \o HexOf(-n) ELSE HexOf(n)

\* s.padStart(2, '0')
PadStart2(s) == IF Len(s) < 2 THEN "0" \o s ELSE s

\* minFreq = 27.5 and maxFreq = 4186, in tenths of a hertz
minFreq == 275
maxFreq == 41860

\* the local variable normalized, scaled by Fix
Normalized(freq) ==
  JSRound((Log2Fix(freq, FreqScale) - Log2Fix(minFreq, FreqScale)) * Fix,
          Log2Fix(maxFreq, FreqScale) - Log2Fix(minFreq, FreqScale))

\* 0.33 and 0.67, scaled by Fix
LowThird == 3300
HighThird == 6700

\* Contribution with the green-to-blue blend running up to 0.7
ContributionBlendTo70(freq) ==
  Let(Normalized(freq), LAMBDA normalized :
    IF normalized < LowThird
      THEN [r |-> 255 * (Fix - normalized * 3),
            g |-> 255 * (normalized * 3),
            b |-> 0]
    ELSE IF normalized < 7000
      THEN [r |-> 0,
            g |-> 255 * (Fix - (normalized - LowThird) * 3),
            b |-> 255 * ((normalized - LowThird) * 3)]
    ELSE [r |-> 0, g |-> 0, b |-> 255 * Fix])

\* what one frequency adds to r, g and b, scaled by Fix
Contribution(freq) ==
  Let(Normalized(freq), LAMBDA normalized :
    IF normalized < LowThird
      THEN [r |-> 255 * (Fix - normalized * 3),
            g |-> 255 * (normalized * 3),
            b |-> 0]
    ELSE IF normalized < HighThird
      THEN [r |-> 0,
            g |-> 255 * (Fix - (normalized - LowThird) * 3),
            b |-> 255 * ((normalized - LowThird) * 3)]
    ELSE [r |-> 0, g |-> 0, b |-> 255 * Fix])

RECURSIVE SumFrom(_, _)
\* r, g and b after the loop has run over frequencies[k..], scaled by Fix
SumFrom(frequencies, k) ==
  IF k > Len(frequencies) THEN [r |-> 0, g |-> 0, b |-> 0]
  ELSE Let(Contribution(frequencies[k]), LAMBDA c :
       Let(SumFrom(frequencies, k + 1), LAMBDA rest :
         [r |-> c.r + rest.r, g |-> c.g + rest.g, b |-> c.b + rest.b]))

\* Math.min(255, Math.round(sum / length))
Channel(sum, length) == Min(255, JSRound(sum, Fix * length))

\* the three averaged channels that freqToColor encodes
Channels(frequencies) ==
  Let(SumFrom(frequencies, 1), LAMBDA sum :
    [r |-> Channel(sum.r, Len(frequencies)),
     g |-> Channel(sum.g, Len(frequencies)),
     b |-> Channel(sum.b, Len(frequencies))])

freqToColor(frequencies) ==
  IF Len(frequencies) = 0 THEN "#000000"
  ELSE Let(Channels(frequencies), LAMBDA c :
         "#" \o PadStart2(ToString16(c.r)) \o PadStart2(ToString16(c.g))
             \o PadStart2(ToString16(c.b)))

\* ------------------------------------------------------------------------
\* codeToChord, compareHarmony
\* ------------------------------------------------------------------------
\* A code string is represented by what this.hasher.computeHash does with it:
\* it throws, or it returns a result whose eigenTop is a list of eigenvalues.
HashThrows == [throws |-> TRUE, eigenTop |-> <<>>]
Hashed(eigenTop) == [throws |-> FALSE, eigenTop |-> eigenTop]

\* s.map(F)
Map(s, F(_)) == [i \in 1..Len(s) |-> F(s[i])]

\* ChordOf with the eigenvalues filtered before they are mapped,
\* result.eigenTop.filter(l => l > 0).map(...)
ChordOfPositiveOnly(eigenTop) ==
  Let(Map(SelectSeq(eigenTop, LAMBDA l : l > 0), eigenToFrequency),
      LAMBDA frequencies :
  Let(Map(frequencies, freqToMidi), LAMBDA midi :
  Let(Map(midi, midiToNote), LAMBDA notes :
  Let(analyzeQuality(frequencies), LAMBDA qt :
  Let(freqToColor(frequencies), LAMBDA color :
    [frequencies |-> frequencies, notes |-> notes, midi |-> midi,
     quality |-> qt.quality, tension |-> qt.tension, color |-> color])))))

\* the SoulChord built from the hasher's eigenTop
ChordOf(eigenTop) ==
  Let(Map(eigenTop, eigenToFrequency), LAMBDA frequencies :
  Let(Map(frequencies, freqToMidi), LAMBDA midi :
  Let(Map(midi, midiToNote), LAMBDA notes :
  Let(analyzeQuality(frequencies), LAMBDA qt :
  Let(freqToColor(frequencies), LAMBDA color :
    [frequencies |-> frequencies, notes |-> notes, midi |-> midi,
     quality |-> qt.quality, tension |-> qt.tension, color |-> color])))))

\* how the promise of an async method settles
Fulfilled(v) == [state |-> "fulfilled", value |-> v]
Rejected == [state |-> "rejected", value |-> "hasher error"]

\* codeToChord with the hasher call wrapped in a try/catch that falls back
\* to an empty spectrum
codeToChordMasked(code) ==
  IF code.throws THEN Fulfilled(ChordOf(<<>>))
  ELSE Fulfilled(ChordOf(code.eigenTop))

codeToChord(code) ==
  IF code.throws THEN Rejected ELSE Fulfilled(ChordOf(code.eigenTop))

\* Math.abs(chord1.tension - chord2.tension), an exact fraction
TensionDistance(t1, t2) ==
  [num |-> Abs(t1.num * t2.den - t2.num * t1.den), den |-> t1.den * t2.den]

\* LessByTolerance without the tolerance, t1 < t2
LessNoTolerance(t1, t2) ==
  t1.num * t2.den < t2.num * t1.den

\* t1 < t2 - 0.05
LessByTolerance(t1, t2) ==
  InvTolerance * t1.num * t2.den < InvTolerance * t2.num * t1.den - t1.den * t2.den

\* the verdict moreConsonant of compareHarmony
MoreConsonant(t1, t2) ==
  IF LessByTolerance(t1, t2) THEN "first"
  ELSE IF LessByTolerance(t2, t1) THEN "second"
  ELSE "equal"

\* an await on a rejected promise rejects the caller; the second chord is
\* not asked for when the first one fails
compareHarmony(code1, code2) ==
  Let(codeToChord(code1), LAMBDA p1 :
    IF p1.state = "rejected" THEN Rejected
    ELSE Let(codeToChord(code2), LAMBDA p2 :
      IF p2.state = "rejected" THEN Rejected
      ELSE Fulfilled(
             [chord1 |-> p1.value, chord2 |-> p2.value,
              harmonicDistance |->
                TensionDistance(p1.value.tension, p2.value.tension),
              moreConsonant |->
                MoreConsonant(p1.value.tension, p2.value.tension)])))

\* ------------------------------------------------------------------------
\* State.  The class keeps no mutable field (only the hasher), so the state
\* of the model is the call in progress on the instance: pc = "idle" between
\* calls, and after a call op, arg and ret hold the method, its argument and
\* what it returned until the caller takes the result.  log is a history
\* variable: the results codeToChord has returned for LoggedCode; it is
\* written under SpecLogged only.
\* ------------------------------------------------------------------------
VARIABLES pc, op, arg, ret, log

vars == <<pc, op, arg, ret, log>>

\* eigenvalues handed to eigenToFrequency directly, in hundredths: every
\* hundredth up to 10.00 and every tenth from there on
Eigenvalues ==
  ((-EigenBelowZero) .. 10 * EigenScale)
    \cup {(EigenScale \div 10) * t : t \in 100 .. MaxEigenTenths}

\* 432 Hz shifted by k semitones, 432 * 2^(k/12), in tenths of a hertz
SemitoneFreq(k) == FreqOf(k \div 12, k % 12)

\* frequencies handed to freqToMidi directly, in tenths of a hertz: a range,
\* and the semitones around A4
FreqInputs ==
  (MinFreq .. MaxFreq)
    \cup {SemitoneFreq(k) : k \in (-SemitonesDown) .. SemitonesUp}

\* sequences over S of length 0..n
SeqsUpTo(S, n) == UNION {[1..k -> S] : k \in 0..n}

\* frequencies handed to analyzeQuality and freqToColor directly, in tenths
\* of a hertz: 100 Hz and frequencies at chosen ratios to it and to each other
FreqSamples == {460, 500, 1000, 1050, 1220, 1500, 2000, 2170}

FreqLists == SeqsUpTo(FreqSamples, MaxFreqs)

\* frequencies handed to freqToColor directly, in tenths of a hertz
ColorSamples == {150, 1080, 2721, 6473, 7800, 8640, 50000}

ColorLists == SeqsUpTo(ColorSamples, MaxFreqs)

\* eigenvalues the hasher returns, in hundredths
SpectrumSamples == {-100, 0, 5, 50, 500, 1500, 2990}

\* the code strings handed to codeToChord, and to compareHarmony
Codes ==
  {HashThrows} \cup {Hashed(e) : e \in SeqsUpTo(SpectrumSamples, MaxSpectrum)}
CompareSamples == {5, 7, 50}
CompareCodes ==
  {HashThrows} \cup {Hashed(e) : e \in SeqsUpTo(CompareSamples, MaxCompared)}

Init ==
  /\ pc = "idle"
  /\ op = "none"
  /\ arg = <<>>
  /\ ret = <<>>
  /\ log = <<>>

\* method m, called with argument a, returns r
Return(m, a, r) ==
  /\ pc' = "returned"
  /\ op' = m
  /\ arg' = a
  /\ ret' = r
  /\ log' = log

EigenToFrequency ==
  /\ pc = "idle"
  /\ \E lambda \in Eigenvalues :
       Return("eigenToFrequency", lambda, eigenToFrequency(lambda))

FreqToMidi ==
  /\ pc = "idle"
  /\ \E freq \in FreqInputs :
       Return("freqToMidi", freq, freqToMidi(freq))

MidiToNote ==
  /\ pc = "idle"
  /\ \E midi \in (-MidiBelowZero) .. MaxMidi :
       Return("midiToNote", midi, midiToNote(midi))

AnalyzeQuality ==
  /\ pc = "idle"
  /\ \E frequencies \in FreqLists :
       Return("analyzeQuality", frequencies, analyzeQuality(frequencies))

FreqToColor ==
  /\ pc = "idle"
  /\ \E frequencies \in ColorLists :
       Return("freqToColor", frequencies, freqToColor(frequencies))

CodeToChord ==
  /\ pc = "idle"
  /\ \E code \in Codes :
       Return("codeToChord", code, codeToChord(code))

CompareHarmony ==
  /\ pc = "idle"
  /\ \E code1 \in CompareCodes, code2 \in CompareCodes :
       Return("compareHarmony", <<code1, code2>>, compareHarmony(code1, code2))

\* the caller takes the result; the instance is ready for the next call
Resume ==
  /\ pc = "returned"
  /\ pc' = "idle"
  /\ op' = "none"
  /\ arg' = <<>>
  /\ ret' = <<>>
  /\ log' = log

Next ==
  \/ EigenToFrequency
  \/ FreqToMidi
  \/ MidiToNote
  \/ AnalyzeQuality
  \/ FreqToColor
  \/ CodeToChord
  \/ CompareHarmony
  \/ Resume

Spec == Init /\ [][Next]_vars

\* ------------------------------------------------------------------------
\* The same calls on one instance, with a log of what codeToChord returned
\* for one code, so that calls of the same code can be compared.
\* ------------------------------------------------------------------------
\* the code string whose results are logged
LoggedCode == Hashed(<<5, 50, 500>>)

\* CodeToChord on an instance whose frequencies array is a field that every
\* call appends to: a later call also sees the spectrum of an earlier one
CodeToChordLoggedShared ==
  /\ pc = "idle"
  /\ \E code \in Codes :
       /\ code = LoggedCode => Len(log) < MaxLogged
       /\ pc' = "returned"
       /\ op' = "codeToChord"
       /\ arg' = code
       /\ ret' = IF code.throws THEN Rejected
                 ELSE IF log = <<>> THEN Fulfilled(ChordOf(code.eigenTop))
                 ELSE Fulfilled(ChordOf(LoggedCode.eigenTop \o code.eigenTop))
       /\ log' = IF code = LoggedCode THEN Append(log, ret') ELSE log

CodeToChordLogged ==
  /\ pc = "idle"
  /\ \E code \in Codes :
       /\ code = LoggedCode => Len(log) < MaxLogged
       /\ pc' = "returned"
       /\ op' = "codeToChord"
       /\ arg' = code
       /\ ret' = codeToChord(code)
       /\ log' = IF code = LoggedCode THEN Append(log, ret') ELSE log

NextLogged ==
  \/ EigenToFrequency
  \/ FreqToMidi
  \/ MidiToNote
  \/ AnalyzeQuality
  \/ FreqToColor
  \/ CodeToChordLogged
  \/ CompareHarmony
  \/ Resume

SpecLogged == Init /\ [][NextLogged]_vars

\* ------------------------------------------------------------------------
\* Properties
\* ------------------------------------------------------------------------
\* two tensions denote the same number
SameTension(t1, t2) == t1.num * t2.den = t2.num * t1.den

\* C1: analyzeQuality is symmetric in a two-element input: [f1, f2] and
\* [f2, f1] get the same quality and the same tension.
C1_Symmetry ==
  (op = "analyzeQuality" /\ Len(arg) = 2) =>
    LET swapped == analyzeQuality(<<arg[2], arg[1]>>)
    IN  /\ ret.quality = swapped.quality
        /\ SameTension(ret.tension, swapped.tension)

\* C2: no SoulChord is produced from a spectrum that contains a negative
\* eigenvalue: codeToChord rejects the call.
C2_NegativeRejected ==
  (/\ op = "codeToChord"
   /\ ~arg.throws
   /\ \E i \in 1..Len(arg.eigenTop) : arg.eigenTop[i] < 0)
    => ret.state = "rejected"

\* C3: for every eigenvalue >= 10 the semitone offset that eigenToFrequency
\* uses lies in 0..11, so the frequency stays below the next octave.
C3_OffsetBelowOctave ==
  (op = "eigenToFrequency" /\ arg >= 10 * EigenScale) =>
    /\ EigenNoteOffset(arg) \in 0..11
    /\ ret < FreqOf(EigenOctave(arg) + 1, 0)

\* C4: for every integer MIDI number m, negative ones included, midiToNote
\* returns the chromatic name at index (m floor-mod 12) followed by the
\* octave floor(m / 12) - 1.
C4_FloorModuloName ==
  op = "midiToNote" =>
    ret = NOTES[(arg % 12) + 1] \o ToString((arg \div 12) - 1)


\* the band of the harmonic map an eigenvalue >= 0 lies in:
\* 0 for [0, 0.1), 1 for [0.1, 1), 2 for [1, 10), 3 for [10, infinity)
Band(lambda) ==
  IF lambda < EigenScale \div 10 THEN 0
  ELSE IF lambda < EigenScale THEN 1
  ELSE IF lambda < 10 * EigenScale THEN 2
  ELSE 3

\* C5 as stated: for eigenvalues l1 < l2 in the same band,
\* eigenToFrequency(l1) <= eigenToFrequency(l2), in all four bands.
C5_WithinBandMonotone ==
  (op = "eigenToFrequency" /\ arg >= 0) =>
    \A l1 \in Eigenvalues :
      (0 <= l1 /\ l1 < arg /\ Band(l1) = Band(arg))
        => eigenToFrequency(l1) <= ret

\* the decade [10 m, 10 m + 10) an eigenvalue lies in
Decade(lambda) == lambda \div (10 * EigenScale)

\* C5 as amended: for eigenvalues l1 < l2 in the same band, and in the same
\* decade [10 m, 10 m + 10) when the band is [10, infinity),
\* eigenToFrequency(l1) <= eigenToFrequency(l2).
C5_WithinDecadeMonotone ==
  (op = "eigenToFrequency" /\ arg >= 0) =>
    \A l1 \in Eigenvalues :
      (/\ 0 <= l1
       /\ l1 < arg
       /\ Band(l1) = Band(arg)
       /\ Decade(l1) = Decade(arg))
        => eigenToFrequency(l1) <= ret

\* a call in the top band with a smaller eigenvalue of the same decade that
\* maps strictly lower
C5_Witness ==
  /\ op = "eigenToFrequency"
  /\ arg = 1990
  /\ ret = 17280
  /\ eigenToFrequency(1500) < ret

\* the octave shift of the band table of the harmonic map
BandOctaveShift(lambda) ==
  IF Band(lambda) = 0 THEN -2
  ELSE IF Band(lambda) = 1 THEN -1
  ELSE IF Band(lambda) = 2 THEN 0
  ELSE 1 + CHOOSE e \in 0..10 :
             /\ 10 * EigenScale * Pow2(e) <= lambda
             /\ lambda < 10 * EigenScale * Pow2(e + 1)

\* the semitone offset of the band table: round((lambda mod 10) * 1.2) in
\* the top band is the n with n - 1/2 <= (lambda mod 10) * 1.2 < n + 1/2
BandSemitoneOffset(lambda) ==
  IF Band(lambda) = 0 THEN 0
  ELSE IF Band(lambda) = 1 THEN 4
  ELSE IF Band(lambda) = 2 THEN 7
  ELSE CHOOSE n \in 0..12 :
         /\ (2 * n - 1) * 10 * EigenScale <= 24 * (lambda % (10 * EigenScale))
         /\ 24 * (lambda % (10 * EigenScale)) < (2 * n + 1) * 10 * EigenScale

\* C6: every eigenvalue >= 0 maps to 432 * 2^octaveShift * 2^(offset/12)
\* with (octaveShift, offset) taken from the band table; an eigenvalue on a
\* boundary 0.1, 1, 10 takes the upper band's values.
C6_BandTable ==
  (op = "eigenToFrequency" /\ arg >= 0) =>
    /\ ret = FreqOf(BandOctaveShift(arg), BandSemitoneOffset(arg))
    /\ arg = EigenScale \div 10 => ret = FreqOf(-1, 4)
    /\ arg = EigenScale => ret = FreqOf(0, 7)
    /\ arg = 10 * EigenScale => ret = FreqOf(1, 0)

\* the boundary 10 mapped with the top band's values: 864 Hz
C6_Witness ==
  /\ op = "eigenToFrequency"
  /\ arg = 10 * EigenScale
  /\ ret = 8640

\* note is the pitch class name followed by an octave number
HasPitchClass(note, name) ==
  \E octave \in -3..12 : note = name \o ToString(octave)

\* C7: the notes of a chord follow the documented harmonic map: an
\* eigenvalue in [0, 0.1) gives pitch class C, one in [0.1, 1) gives E and
\* one in [1, 10) gives G.
C7_HarmonicMap ==
  (op = "codeToChord" /\ ret.state = "fulfilled") =>
    \A i \in 1..Len(arg.eigenTop) :
      LET lambda == arg.eigenTop[i]
          note == ret.value.notes[i]
      IN  /\ (lambda >= 0 /\ Band(lambda) = 0) => HasPitchClass(note, "C")
          /\ (lambda >= 0 /\ Band(lambda) = 1) => HasPitchClass(note, "E")
          /\ (lambda >= 0 /\ Band(lambda) = 2) => HasPitchClass(note, "G")

\* the pairs of positions i < j of a list of n elements
Pairs(n) == {p \in (1..n) \X (1..n) : p[1] < p[2]}

\* the pairs of positions of frequencies whose ratio matches a table entry
ConsonantPairs(frequencies) ==
  {p \in Pairs(Len(frequencies)) :
     \E k \in 1..Len(consonantRatios) :
       Matches([num |-> frequencies[p[2]], den |-> frequencies[p[1]]],
               consonantRatios[k])}

\* C8: for n >= 2 frequencies analyzeQuality examines exactly n(n-1)/2
\* pairs, counts each consonant pair once, and returns
\* tension = 1 - consonantPairs / totalPairs, a value in [0, 1].
C8_PairTension ==
  (op = "analyzeQuality" /\ Len(arg) >= 2) =>
    LET n == Len(arg)
        total == (n * (n - 1)) \div 2
    IN  /\ Len(Ratios(arg)) = total
        /\ ret.tension.den = total
        /\ ret.tension.num = total - Cardinality(ConsonantPairs(arg))
        /\ 0 <= ret.tension.num
        /\ ret.tension.num <= ret.tension.den

\* three frequencies, two of the three pairs consonant: tension 1/3
C8_Witness ==
  /\ op = "analyzeQuality"
  /\ arg = <<1000, 1500, 1050>>
  /\ ret.tension = [num |-> 1, den |-> 3]

\* the quality that the thresholds 0.3 and 0.7 give a tension num / den
ThresholdQuality(t) ==
  IF 10 * t.num < 3 * t.den THEN "consonant"
  ELSE IF 10 * t.num > 7 * t.den THEN "dissonant"
  ELSE "neutral"

\* C9 as stated: the quality analyzeQuality returns is determined by the
\* returned tension alone: consonant iff tension < 0.3, dissonant iff
\* tension > 0.7, neutral otherwise.
C9_QualityFromTension ==
  op = "analyzeQuality" => ret.quality = ThresholdQuality(ret.tension)

\* C9 as amended: for an input of at least two frequencies the quality is
\* determined by the returned tension alone (consonant iff tension < 0.3,
\* dissonant iff tension > 0.7, neutral otherwise); for fewer than two the
\* result is neutral with tension 0.
C9_QualityFromTensionOfPairs ==
  op = "analyzeQuality" =>
    /\ Len(arg) >= 2 => ret.quality = ThresholdQuality(ret.tension)
    /\ Len(arg) < 2 => (ret.quality = "neutral" /\ ret.tension.num = 0)

\* three frequencies with tension 2/3, between the thresholds: neutral
C9_Witness ==
  /\ op = "analyzeQuality"
  /\ arg = <<1000, 1050, 2000>>
  /\ ret = [quality |-> "neutral", tension |-> [num |-> 2, den |-> 3]]

\* C10: a spectrum of zero or one eigenvalue is not an error: codeToChord
\* completes with quality neutral and tension 0, no pair is compared and
\* nothing is divided; for the empty spectrum frequencies, notes and midi
\* are empty and the colour is #000000.
C10_DegenerateSpectrum ==
  (op = "codeToChord" /\ ~arg.throws /\ Len(arg.eigenTop) <= 1) =>
    /\ ret.state = "fulfilled"
    /\ ret.value.quality = "neutral"
    /\ ret.value.tension.num = 0
    /\ ret.value.tension.den > 0
    /\ Ratios(ret.value.frequencies) = <<>>
    /\ Len(arg.eigenTop) = 0 =>
         /\ ret.value.frequencies = <<>>
         /\ ret.value.notes = <<>>
         /\ ret.value.midi = <<>>
         /\ ret.value.color = "#000000"

\* a chord of one note built from a spectrum of one eigenvalue
C10_Witness ==
  /\ op = "codeToChord"
  /\ arg = Hashed(<<500>>)
  /\ ret.state = "fulfilled"
  /\ ret.value.frequencies = <<6473>>
  /\ ret.value.quality = "neutral"

\* C11: the chord has frequencies, notes and midi of the same length as the
\* spectrum and aligned with it: frequencies[i] comes from eigenTop[i],
\* midi[i] = freqToMidi(frequencies[i]) and notes[i] = midiToNote(midi[i]).
C11_AlignedArrays ==
  (op = "codeToChord" /\ ~arg.throws) =>
    LET chord == ret.value
        n == Len(arg.eigenTop)
    IN  /\ ret.state = "fulfilled"
        /\ Len(chord.frequencies) = n
        /\ Len(chord.midi) = n
        /\ Len(chord.notes) = n
        /\ \A i \in 1..n :
             /\ chord.frequencies[i] = eigenToFrequency(arg.eigenTop[i])
             /\ chord.midi[i] = freqToMidi(chord.frequencies[i])
             /\ chord.notes[i] = midiToNote(chord.midi[i])

\* a chord of three notes in the order of its spectrum, zero included
C11_Witness ==
  /\ op = "codeToChord"
  /\ arg = Hashed(<<500, 0, 50>>)
  /\ ret.state = "fulfilled"
  /\ ret.value.frequencies = <<6473, 1080, 2721>>
  /\ ret.value.midi = <<76, 45, 61>>
  /\ ret.value.notes = <<"E5", "A2", "C#4">>

\* the tensions 0, 0.30, 0.40, 0.43, 0.80 and 1 in hundredths
TensionExamples == {0, 30, 40, 43, 80, 100}

Hundredths(n) == [num |-> n, den |-> 100]

\* d is the absolute difference of t1 and t2
IsDistance(d, t1, t2) ==
  /\ d.num >= 0
  /\ d.den > 0
  /\ \/ (t1.num * t2.den - t2.num * t1.den) * d.den = d.num * t1.den * t2.den
     \/ (t2.num * t1.den - t1.num * t2.den) * d.den = d.num * t1.den * t2.den

\* t1 is below t2 by more than 0.05
BelowByMoreThanTolerance(t1, t2) ==
  20 * (t2.num * t1.den - t1.num * t2.den) > t1.den * t2.den

\* the verdict is the one the thresholds give, and it is "equal" exactly
\* when the tensions differ by at most 0.05
IsVerdict(v, t1, t2) ==
  /\ v \in {"first", "second", "equal"}
  /\ (v = "first") <=> BelowByMoreThanTolerance(t1, t2)
  /\ (v = "second") <=> BelowByMoreThanTolerance(t2, t1)
  /\ (v = "equal") <=>
       20 * Abs(t1.num * t2.den - t2.num * t1.den) <= t1.den * t2.den

\* C12: compareHarmony returns harmonicDistance = |tension1 - tension2| and
\* the verdict "first" iff tension1 < tension2 - 0.05, "second" iff
\* tension2 < tension1 - 0.05 and "equal" otherwise, that is exactly when the
\* tensions differ by at most 0.05; the comparison of lines 357-366 gives
\* "equal" for 0.40 and 0.43 and "first" for 0.30 and 0.80.
C12_Comparator ==
  (op = "compareHarmony" /\ ret.state = "fulfilled") =>
    LET r == ret.value
        t1 == r.chord1.tension
        t2 == r.chord2.tension
    IN  /\ r.chord1 = codeToChord(arg[1]).value
        /\ r.chord2 = codeToChord(arg[2]).value
        /\ IsDistance(r.harmonicDistance, t1, t2)
        /\ IsVerdict(r.moreConsonant, t1, t2)
        /\ \A a \in TensionExamples, b \in TensionExamples :
             /\ IsDistance(TensionDistance(Hundredths(a), Hundredths(b)),
                           Hundredths(a), Hundredths(b))
             /\ IsVerdict(MoreConsonant(Hundredths(a), Hundredths(b)),
                          Hundredths(a), Hundredths(b))
        /\ MoreConsonant(Hundredths(40), Hundredths(43)) = "equal"
        /\ MoreConsonant(Hundredths(30), Hundredths(80)) = "first"

\* a consonant pair against a dissonant pair: distance 1, the first wins
C12_Witness ==
  /\ op = "compareHarmony"
  /\ arg = <<Hashed(<<5, 7>>), Hashed(<<5, 50>>)>>
  /\ ret.state = "fulfilled"
  /\ ret.value.chord1.tension = [num |-> 0, den |-> 1]
  /\ ret.value.chord2.tension = [num |-> 1, den |-> 1]
  /\ ret.value.moreConsonant = "first"
  /\ SameTension(ret.value.harmonicDistance, [num |-> 1, den |-> 1])

\* C13: the namer is tuned to 432 Hz: freqToMidi(432 * 2^(k/12)) = 69 + k
\* for every integer k, freqToMidi(432) = 69 and midiToNote(69) = "A4".
C13_TunedTo432 ==
  /\ op = "freqToMidi" =>
       /\ arg = BASE_FREQ * FreqScale => ret = 69
       /\ \A k \in (-SemitonesDown) .. SemitonesUp :
            arg = SemitoneFreq(k) => ret = 69 + k
  /\ (op = "midiToNote" /\ arg = 69) => ret = "A4"

\* middle C, nine semitones below A4, is 256.9 Hz and gets MIDI number 60
C13_Witness ==
  /\ op = "freqToMidi"
  /\ arg = SemitoneFreq(-9)
  /\ arg = 2569
  /\ ret = 60

\* the two hexadecimal digits of a channel n in 0..255
TwoHex(n) == HexDigits[(n \div 16) + 1] \o HexDigits[(n % 16) + 1]

\* color is "#" and the six hexadecimal digits of channels c, each in 0..255
IsHexColor(color, c) ==
  /\ c.r \in 0..255
  /\ c.g \in 0..255
  /\ c.b \in 0..255
  /\ Len(color) = 7
  /\ color = "#" \o TwoHex(c.r) \o TwoHex(c.g) \o TwoHex(c.b)

\* C14: for every non-empty list of positive frequencies, those below
\* 27.5 Hz, above 4186 Hz and just below the normalized position 0.67
\* included, each averaged channel is an integer in 0..255 and the colour is
\* "#" followed by exactly six hexadecimal digits.
C14_ChannelsInRange ==
  (op = "freqToColor" /\ Len(arg) > 0) => IsHexColor(ret, Channels(arg))

\* the promise is rejected with the hasher's error and carries no chord
FailsWithHasherError(promise) ==
  /\ promise.state = "rejected"
  /\ promise.value = "hasher error"

\* C15: a failure of the extractor during codeToChord or compareHarmony
\* reaches the caller as a failure, neither retried nor masked, and no
\* partial SoulChord or ComparisonResult is returned; in compareHarmony a
\* failure building either chord fails the whole comparison.
C15_FailurePropagates ==
  /\ (op = "codeToChord" /\ arg.throws) => FailsWithHasherError(ret)
  /\ (op = "compareHarmony" /\ (arg[1].throws \/ arg[2].throws)) =>
       FailsWithHasherError(ret)

\* the first chord is built, the hasher fails on the second code, and the
\* comparison is rejected
C15_Witness ==
  /\ op = "compareHarmony"
  /\ arg = <<Hashed(<<5, 50>>), HashThrows>>
  /\ ret = Rejected

LowestMidi == 69 - 24

\* note names a non-negative MIDI number: one of the twelve chromatic names
\* followed by the octave
IsNoteOf(note, midi) ==
  /\ midi >= 0
  /\ note = NOTES[(midi % 12) + 1] \o ToString((midi \div 12) - 1)

\* C17: every MIDI number the pipeline makes from a non-negative eigenvalue
\* is 69 + 12 * octaveShift + semitoneOffset and at least 45, so midiToNote
\* never takes the remainder of a negative number there and every note is a
\* chromatic name followed by an octave.
C17_PipelineMidiAtLeast45 ==
  /\ (op = "eigenToFrequency" /\ arg >= 0) =>
       LET midi == freqToMidi(ret)
       IN  /\ midi = 69 + 12 * BandOctaveShift(arg) + BandSemitoneOffset(arg)
           /\ midi >= LowestMidi
           /\ IsNoteOf(midiToNote(midi), midi)
  /\ (op = "codeToChord" /\ ret.state = "fulfilled") =>
       \A i \in 1..Len(arg.eigenTop) :
         arg.eigenTop[i] >= 0 =>
           /\ ret.value.midi[i] >= LowestMidi
           /\ IsNoteOf(ret.value.notes[i], ret.value.midi[i])

\* a chord with the lowest note A2 (MIDI 45) and a top-band note (MIDI 105)
C17_Witness ==
  /\ op = "codeToChord"
  /\ arg = Hashed(<<0, 2990>>)
  /\ ret.state = "fulfilled"
  /\ ret.value.midi = <<45, 105>>
  /\ ret.value.notes = <<"A2", "A7">>

\* every eigenvalue of the spectrum is in [0, 10)
BelowTopBand(eigenTop) ==
  \A i \in 1..Len(eigenTop) : 0 <= eigenTop[i] /\ eigenTop[i] < 10 * EigenScale

\* the pairs of positions of the spectrum whose eigenvalues share a band
SameBandPairs(eigenTop) ==
  {p \in Pairs(Len(eigenTop)) : Band(eigenTop[p[1]]) = Band(eigenTop[p[2]])}

\* C18: for a spectrum with every eigenvalue in [0, 10), a pair of the chord
\* is consonant exactly when its two eigenvalues are in the same band, in
\* either order, so tension is the fraction of cross-band pairs; one
\* eigenvalue in each of the three lower bands gives tension 1, dissonant.
C18_CrossBandDissonant ==
  (op = "codeToChord" /\ ret.state = "fulfilled"
     /\ Len(arg.eigenTop) >= 2 /\ BelowTopBand(arg.eigenTop)) =>
    LET n == Len(arg.eigenTop)
        total == (n * (n - 1)) \div 2
        same == SameBandPairs(arg.eigenTop)
    IN  /\ ConsonantPairs(ret.value.frequencies) = same
        /\ ret.value.tension.den = total
        /\ ret.value.tension.num = total - Cardinality(same)
        /\ {Band(arg.eigenTop[i]) : i \in 1..n} = {0, 1, 2} /\ n = 3 =>
             /\ ret.value.tension.num = ret.value.tension.den
             /\ ret.value.quality = "dissonant"

\* the spectrum [0.05, 0.5, 5.0]: tension 1, dissonant
C18_Witness ==
  /\ op = "codeToChord"
  /\ arg = Hashed(<<5, 50, 500>>)
  /\ ret.state = "fulfilled"
  /\ ret.value.tension = [num |-> 3, den |-> 3]
  /\ ret.value.quality = "dissonant"

\* the semitones above 432 Hz of the frequency of a non-negative eigenvalue
PipelineSemitones(lambda) ==
  12 * BandOctaveShift(lambda) + BandSemitoneOffset(lambda)

\* every eigenvalue of the spectrum is non-negative
NonNegative(eigenTop) == \A i \in 1..Len(eigenTop) : eigenTop[i] >= 0

\* C19: every colour codeToChord makes from non-negative eigenvalues is "#"
\* and six hexadecimal digits: a pipeline frequency is 432 * 2^(k/12) with
\* k in {-24, -8, 7} or k >= 12, never below 27.5 Hz and never where the
\* green channel is negative.
C19_PipelineColourValid ==
  /\ (op = "eigenToFrequency" /\ arg >= 0) =>
       LET k == PipelineSemitones(arg)
       IN  /\ k \in {-24, -8, 7} \/ k >= 12
           /\ ret = SemitoneFreq(k)
           /\ ret >= minFreq
           /\ Contribution(ret).g >= 0
           /\ IsHexColor(freqToColor(<<ret>>), Channels(<<ret>>))
  /\ (op = "codeToChord" /\ ret.state = "fulfilled" /\ NonNegative(arg.eigenTop)
        /\ Len(arg.eigenTop) > 0) =>
       IsHexColor(ret.value.color, Channels(ret.value.frequencies))

\* a chord of the three lower bands and the first top-band note
C19_Witness ==
  /\ op = "codeToChord"
  /\ arg = Hashed(<<5, 500, 1500>>)
  /\ ret.state = "fulfilled"
  /\ Len(ret.value.color) = 7
  /\ Channels(ret.value.frequencies).g > 0
  /\ Channels(ret.value.frequencies).b > 0

====
